---- MODULE Spec2Model ----
(***************************************************************************)
(* A model of CmdOption.h: the StringValue value store, the option table   *)
(* that operator<< builds from usage text (init, parseLine, parseOptLine), *)
(* and parse(), which drives getopt_long over argv.                        *)
(*                                                                         *)
(* Text is modelled as a sequence of one-character strings, so that        *)
(* splitting, searching and concatenation are computed as the code does    *)
(* them.  The NUL character is the empty string "".                        *)
(***************************************************************************)
EXTENDS Integers, Sequences, FiniteSets, TLC

VARIABLES
    m_usage,          \* CmdOption::m_usage
    m_errorStr,       \* CmdOption::m_errorStr
    m_shortOptStr,    \* CmdOption::m_shortOptStr
    m_longOptions,    \* CmdOption::m_longOptions (vector of struct option)
    m_longOptNames,   \* CmdOption::m_longOptNames
    m_maxIndex,       \* CmdOption::m_maxIndex
    m_indexMap,       \* CmdOption::m_indexMap
    m_options,        \* CmdOption::m_options
    m_arguments,      \* CmdOption::m_arguments
    s,                \* init(): the unread rest of the stringstream over m_usage
    i,                \* init(): the line counter
    optind,           \* getopt: index of the next argv element to scan
    optarg,           \* getopt: <<>> for NULL, <<text>> for an argument
    optopt,           \* getopt: the offending option character
    gd,               \* getopt: nextchar, first_nonopt, last_nonopt, initialized
    argv,             \* parse(): the caller's argv, which getopt_long permutes
    argv_in,          \* parse(): argv as it was passed to the call
    c,                \* parse(): the value getopt_long returned last
    ncalls,           \* parse(): getopt_long calls made by the current call
    pc,               \* "idle", "init", "scanning" or "done"
    nLines,           \* usage lines handed to operator<< so far
    nTokens,          \* argv elements handed to parse() so far
    nParse,           \* parse() calls started so far
    sval,             \* a StringValue of the caller's own
    added,            \* the strings add() was called with on sval, in order
    vec               \* what as<std::vector<std::string>>() of sval last gave

vars == <<m_usage, m_errorStr, m_shortOptStr, m_longOptions, m_longOptNames,
          m_maxIndex, m_indexMap, m_options, m_arguments, s, i, optind, optarg,
          optopt, gd, argv, argv_in, c, ncalls, pc, nLines, nTokens, nParse,
          sval, added, vec>>

tableVars == <<m_shortOptStr, m_longOptions, m_longOptNames, m_maxIndex, m_indexMap>>
scanVars == <<optind, optarg, optopt, gd, argv, argv_in, c, ncalls>>
valueVars == <<sval, added, vec>>
parserVars == <<m_usage, m_errorStr, tableVars, m_options, m_arguments, s, i, scanVars,
                pc, nLines, nTokens, nParse>>

(***************************************************************************)
(* Bounds of the model.                                                    *)
(***************************************************************************)
MaxLines == 3     \* usage lines over all operator<< calls of a behaviour
MaxTokens == 5    \* argv elements (program name included) over all parse() calls
MaxAdds == 3      \* add() calls on one StringValue

(***************************************************************************)
(* Characters and text.                                                    *)
(***************************************************************************)
NUL == ""
NL == "\n"
EOF == "EOF"      \* getopt_long's -1: no character is three letters long

no_argument == 0
required_argument == 1
optional_argument == 2

Max(a, b) == IF a >= b THEN a ELSE b

\* F applied to the value of v, which is computed once
Then(v, F(_)) == CHOOSE y \in {F(x) : x \in {v}} : TRUE

\* std::string::find_first_of(c): the 1-based position of the first c, 0 for npos
RECURSIVE FindFrom(_, _, _)
FindFrom(str, ch, k) ==
    IF k > Len(str) THEN 0
    ELSE IF str[k] = ch THEN k
    ELSE FindFrom(str, ch, k + 1)

FindFirstOf(str, ch) == FindFrom(str, ch, 1)

\* std::to_string(int) for n >= 0
Digit(d) == <<"0","1","2","3","4","5","6","7","8","9">>[d + 1]

RECURSIVE IntToString(_)
IntToString(n) ==
    IF n < 10 THEN <<Digit(n)>> ELSE IntToString(n \div 10) \o <<Digit(n % 10)>>

\* std::getline(stream, line): ok is FALSE when nothing is left to read
GetLine(str) ==
    IF str = <<>> THEN [ok |-> FALSE, line |-> <<>>, rest |-> <<>>]
    ELSE LET p == FindFirstOf(str, NL) IN
         IF p = 0 THEN [ok |-> TRUE, line |-> str, rest |-> <<>>]
         ELSE [ok |-> TRUE, line |-> SubSeq(str, 1, p - 1),
               rest |-> SubSeq(str, p + 1, Len(str))]

IsSpace(ch) == ch \in {" ", "\t", NL}

\* stream >> word, repeated to the end of the line: the whitespace-separated words
RECURSIVE SplitWords(_, _, _)
SplitWords(str, k, cur) ==
    IF k > Len(str) THEN (IF cur = <<>> THEN <<>> ELSE <<cur>>)
    ELSE IF IsSpace(str[k])
         THEN (IF cur = <<>> THEN <<>> ELSE <<cur>>) \o SplitWords(str, k + 1, <<>>)
         ELSE SplitWords(str, k + 1, Append(cur, str[k]))

Words(line) == SplitWords(line, 1, <<>>)

(***************************************************************************)
(* StringValue.                                                            *)
(***************************************************************************)
NullStrValue == [m_text |-> <<>>, m_count |-> 0]

StringValueAdd(sv, str) ==
    [m_text |-> IF sv.m_count = 0 THEN str ELSE sv.m_text \o <<NL>> \o str,
     m_count |-> sv.m_count + 1]

Count(sv) == sv.m_count

(***************************************************************************)
(* Diagnostics.                                                            *)
(***************************************************************************)
StrInvalidOption ==
    <<"i","n","v","a","l","i","d"," ","o","p","t","i","o","n"," ","a","t"," ","l","i","n","e",":"," ">>
StrDupShort ==
    <<"d","u","p","l","i","c","a","t","e"," ","s","h","o","r","t"," ","o","p","t","i","o","n",":"," ">>
StrDupLong ==
    <<"d","u","p","l","i","c","a","t","e"," ","l","o","n","g"," ","o","p","t","i","o","n",":"," ">>
StrUnknownOption ==
    <<"U","n","k","n","o","w","n"," ","o","p","t","i","o","n",":"," ">>
StrMissingArg ==
    <<"M","i","s","s","i","n","g"," ","a","r","g","u","m","e","n","t"," ","f","o","r",":"," ">>
StrUnknownShort ==
    <<"u","n","k","n","o","w","n"," ","s","h","o","r","t"," ","o","p","t","i","o","n",":"," ">>

\* addErrorStr keeping the last diagnostic only
AddErrorStrLast(err, str) == str

AddErrorStr(err, str) == IF err # <<>> THEN err \o <<NL>> \o str ELSE str

Good(err) == err = <<>>

good == Good(m_errorStr)

(***************************************************************************)
(* parseOptLine, first half: the words of one usage line.                  *)
(* A scan is [n, shortOpt, longOpt, argReqmt, ret]; ret is "loop" while    *)
(* the word loop runs, "break" when it is left at the third word, "true"   *)
(* or "false" once parseOptLine has returned.                              *)
(***************************************************************************)
\* LongOptWord without the check of the closing bracket
LongOptWordUnclosed(word, sc) ==
    LET pos == FindFirstOf(word, "=") IN
    IF pos = 0
    THEN [sc EXCEPT !.longOpt = SubSeq(word, 3, Len(word)), !.argReqmt = no_argument]
    ELSE IF word[pos - 1] = "["
         THEN [sc EXCEPT !.longOpt = SubSeq(word, 3, pos - 2),
                         !.argReqmt = optional_argument]
         ELSE [sc EXCEPT !.longOpt = SubSeq(word, 3, pos - 1),
                         !.argReqmt = required_argument]

LongOptWord(word, sc) ==
    LET pos == FindFirstOf(word, "=") IN
    IF pos = 0
    THEN [sc EXCEPT !.longOpt = SubSeq(word, 3, Len(word)), !.argReqmt = no_argument]
    ELSE IF word[pos - 1] = "["
         THEN IF word[Len(word)] # "]"
              THEN [sc EXCEPT !.ret = "false"]
              ELSE [sc EXCEPT !.longOpt = SubSeq(word, 3, pos - 2),
                              !.argReqmt = optional_argument]
         ELSE [sc EXCEPT !.longOpt = SubSeq(word, 3, pos - 1),
                         !.argReqmt = required_argument]

ShortOptWord(word, sc) ==
    IF \/ sc.shortOpt # NUL
       \/ (Len(word) = 3 /\ word[3] # ",")
       \/ Len(word) > 3
    THEN [sc EXCEPT !.ret = "false"]
    ELSE [sc EXCEPT !.shortOpt = word[2]]

\* WordOf with a first word that is no option token skipped like a later one
WordOfNoProse(word, sn) ==
    IF sn.n > 2 THEN [sn EXCEPT !.ret = "break"]
    ELSE IF Len(word) <= 1 THEN [sn EXCEPT !.ret = "false"]
    ELSE IF word[1] # "-" THEN sn
    ELSE IF word[2] = "-" THEN LongOptWord(word, sn)
    ELSE ShortOptWord(word, sn)

\* one word of the loop at lines 574-634; sn counts it
WordOf(word, sn) ==
    IF sn.n > 2 THEN [sn EXCEPT !.ret = "break"]
    ELSE IF Len(word) <= 1 THEN [sn EXCEPT !.ret = "false"]
    ELSE IF word[1] # "-"
         THEN IF sn.n = 1 THEN [sn EXCEPT !.ret = "true"] ELSE sn
    ELSE IF word[2] = "-" THEN LongOptWord(word, sn)
    ELSE ShortOptWord(word, sn)

RECURSIVE WordLoop(_, _)
WordLoop(ws, sc) ==
    IF ws = <<>> THEN sc
    ELSE Then(WordOf(Head(ws), [sc EXCEPT !.n = @ + 1]),
              LAMBDA sw : IF sw.ret = "break" THEN [sw EXCEPT !.ret = "loop"]
                          ELSE IF sw.ret # "loop" THEN sw
                          ELSE WordLoop(Tail(ws), sw))

\* AfterWords without the word count deciding the arity of a short-only line
AfterWordsNoCount(sc) ==
    IF sc.ret # "loop" THEN sc
    ELSE IF sc.n = 0 THEN [sc EXCEPT !.ret = "true"]
    ELSE IF sc.shortOpt = NUL /\ sc.longOpt = <<>> THEN [sc EXCEPT !.ret = "false"]
    ELSE [sc EXCEPT !.ret = "option"]

\* Lines 566-650: ret "true" (line ignored), "false" (invalid) or "option"
AfterWords(sc) ==
    IF sc.ret # "loop" THEN sc
    ELSE IF sc.n = 0 THEN [sc EXCEPT !.ret = "true"]
    ELSE IF sc.shortOpt = NUL /\ sc.longOpt = <<>> THEN [sc EXCEPT !.ret = "false"]
    ELSE IF sc.longOpt = <<>>
         THEN [sc EXCEPT !.ret = "option",
                         !.argReqmt = IF sc.n = 2 THEN required_argument
                                                  ELSE no_argument]
         ELSE [sc EXCEPT !.ret = "option"]

ScanLine(line) ==
    Then(WordLoop(Words(line),
                  [n |-> 0, shortOpt |-> NUL, longOpt |-> <<>>,
                   argReqmt |-> no_argument, ret |-> "loop"]),
         AfterWords)

(***************************************************************************)
(* parseOptLine, second half: registering the option in the table.         *)
(* A table is [shortOptStr, longOptions, longOptNames, maxIndex, indexMap, *)
(* errorStr].  A null name pointer of a struct option is <<>>: the names   *)
(* init() points at are never empty (line 672).                            *)
(***************************************************************************)
NullName == <<>>

ShortOptSpec(shortOpt, argReqmt) ==
    IF argReqmt = required_argument \/ argReqmt = optional_argument
    THEN <<shortOpt, ":">>
    ELSE <<shortOpt>>

\* m_indexMap[key] = index, reached only when key is absent
MapInsert(map, key, index) == (key :> index) @@ map

\* RegisterShort leaving the short char of a line with a long option out of the
\* alias index
RegisterShortUnindexed(t, sc) ==
    IF sc.shortOpt = NUL THEN [t |-> t, indexUsed |-> FALSE]
    ELSE LET str == <<sc.shortOpt>>
             t1 == [t EXCEPT !.shortOptStr = @ \o ShortOptSpec(sc.shortOpt, sc.argReqmt)]
         IN  IF str \in DOMAIN t.indexMap
             THEN [t |-> [t1 EXCEPT !.errorStr = AddErrorStr(@, StrDupShort \o str)],
                   indexUsed |-> FALSE]
             ELSE IF sc.longOpt # <<>> THEN [t |-> t1, indexUsed |-> FALSE]
             ELSE [t |-> [t1 EXCEPT !.indexMap = MapInsert(@, str, t.maxIndex)],
                   indexUsed |-> TRUE]

\* RegisterShort with a collision merged: the alias is moved to the new identity
RegisterShortReassign(t, sc) ==
    IF sc.shortOpt = NUL THEN [t |-> t, indexUsed |-> FALSE]
    ELSE [t |-> [t EXCEPT !.shortOptStr = @ \o ShortOptSpec(sc.shortOpt, sc.argReqmt),
                          !.indexMap = MapInsert(@, <<sc.shortOpt>>, t.maxIndex)],
          indexUsed |-> TRUE]

RegisterShort(t, sc) ==
    IF sc.shortOpt = NUL THEN [t |-> t, indexUsed |-> FALSE]
    ELSE LET str == <<sc.shortOpt>>
             t1 == [t EXCEPT !.shortOptStr = @ \o ShortOptSpec(sc.shortOpt, sc.argReqmt)]
         IN  IF str \in DOMAIN t.indexMap
             THEN [t |-> [t1 EXCEPT !.errorStr = AddErrorStr(@, StrDupShort \o str)],
                   indexUsed |-> FALSE]
             ELSE [t |-> [t1 EXCEPT !.indexMap = MapInsert(@, str, t.maxIndex)],
                   indexUsed |-> TRUE]

RegisterLong(r, sc) ==
    IF sc.longOpt = <<>> THEN r
    ELSE LET t == r.t
             t1 == [t EXCEPT !.longOptNames = Append(@, sc.longOpt),
                             !.longOptions = Append(@, [name |-> NullName,
                                                        has_arg |-> sc.argReqmt,
                                                        val |-> sc.shortOpt])]
         IN  IF sc.longOpt \in DOMAIN t.indexMap
             THEN [t |-> [t1 EXCEPT !.errorStr = AddErrorStr(@, StrDupLong \o sc.longOpt)],
                   indexUsed |-> r.indexUsed]
             ELSE [t |-> [t1 EXCEPT !.indexMap = MapInsert(@, sc.longOpt, t.maxIndex)],
                   indexUsed |-> TRUE]

\* Register with ++m_maxIndex done for every option line
RegisterCounting(t, sc) ==
    Then(Then(RegisterShort(t, sc), LAMBDA r : RegisterLong(r, sc)),
         LAMBDA r : [r.t EXCEPT !.maxIndex = @ + 1])

\* Lines 653-689
Register(t, sc) ==
    Then(Then(RegisterShort(t, sc), LAMBDA r : RegisterLong(r, sc)),
         LAMBDA r : IF r.indexUsed THEN [r.t EXCEPT !.maxIndex = @ + 1] ELSE r.t)

\* parseLine(i, line): parseOptLine and the diagnostic of an invalid line
ParseLineOf(t, n, line) ==
    Then(ScanLine(line),
         LAMBDA sc :
            IF sc.ret = "false"
            THEN [t EXCEPT !.errorStr =
                     AddErrorStr(@, StrInvalidOption \o IntToString(n) \o <<NL>> \o line)]
            ELSE IF sc.ret = "true" THEN t
            ELSE Register(t, sc))

Table ==
    [shortOptStr |-> m_shortOptStr, longOptions |-> m_longOptions,
     longOptNames |-> m_longOptNames, maxIndex |-> m_maxIndex,
     indexMap |-> m_indexMap, errorStr |-> m_errorStr]

\* init(), lines 528-531: the terminator, then the name pointers
FinishLongOptions(opts, names) ==
    LET withEnd == Append(opts, [name |-> NullName, has_arg |-> 0, val |-> NUL])
    IN  [k \in 1..Len(withEnd) |->
            IF k <= Len(names) THEN [withEnd[k] EXCEPT !.name = names[k]]
            ELSE withEnd[k]]

(***************************************************************************)
(* getopt_long, as parse() calls it (line 354): the GNU scanner with       *)
(* argv permutation, which the leading ':' of m_shortOptStr leaves on      *)
(* (POSIXLY_CORRECT is taken to be unset), and with error printing off.    *)
(* A scanner state g is [argv, optind, optarg, optopt, nextchar,           *)
(* first_nonopt, last_nonopt, initialized]; a call adds c, the value       *)
(* returned, and longind.  argv[k] of the code is Arg(g, k).               *)
(***************************************************************************)
Arg(g, k) == g.argv[k + 1]

Argc(g) == Len(g.argv)

NonOption(tok) == Len(tok) = 0 \/ tok[1] # "-" \/ Len(tok) = 1

\* exchange(): the skipped non-options move behind the options that follow them
Exchange(g) ==
    LET bottom == g.first_nonopt
        middle == g.last_nonopt
        top == g.optind
        a == g.argv
    IN  [g EXCEPT !.argv = SubSeq(a, 1, bottom) \o SubSeq(a, middle + 1, top)
                           \o SubSeq(a, bottom + 1, middle)
                           \o SubSeq(a, top + 1, Len(a)),
                  !.first_nonopt = @ + (top - middle),
                  !.last_nonopt = top]

\* _getopt_initialize: a zero optind, or the first call, starts a new scan
GetoptInitialize(g) ==
    LET start == IF g.optind = 0 THEN 1 ELSE g.optind
    IN  [g EXCEPT !.optind = start, !.first_nonopt = start, !.last_nonopt = start,
                  !.nextchar = <<>>, !.initialized = TRUE]

RECURSIVE SkipNonOptions(_)
SkipNonOptions(g) ==
    IF g.optind < Argc(g) /\ NonOption(Arg(g, g.optind))
    THEN Then([g EXCEPT !.optind = @ + 1], SkipNonOptions)
    ELSE g

IsPrefix(p, str) == Len(p) <= Len(str) /\ SubSeq(str, 1, Len(p)) = p

\* the descriptors getopt_long sees: those before the first null name
RECURSIVE VisibleCount(_, _)
VisibleCount(longopts, k) ==
    IF k > Len(longopts) \/ longopts[k].name = NullName THEN k - 1
    ELSE VisibleCount(longopts, k + 1)

Min(S) == CHOOSE x \in S : \A y \in S : x <= y

\* process_long_option: nextchar holds the text after "--" (or after -W)
ProcessLongOption(g, optstring, longopts) ==
    LET eq == FindFirstOf(g.nextchar, "=")
        name == IF eq = 0 THEN g.nextchar ELSE SubSeq(g.nextchar, 1, eq - 1)
        nopts == VisibleCount(longopts, 1)
        exact == {k \in 1..nopts : longopts[k].name = name}
        abbrev == {k \in 1..nopts : IsPrefix(name, longopts[k].name)}
        first == Min(abbrev)
        ambiguous == exact = {} /\ abbrev # {} /\
                     \E k \in abbrev : \/ longopts[k].has_arg # longopts[first].has_arg
                                       \/ longopts[k].val # longopts[first].val
        found == IF exact # {} THEN Min(exact) ELSE first
        g1 == [g EXCEPT !.optind = @ + 1, !.nextchar = <<>>]
    IN  \* g1: the element is consumed whatever the outcome
        IF ambiguous \/ (exact = {} /\ abbrev = {})
        THEN [g1 EXCEPT !.optopt = NUL] @@ [c |-> "?", longind |-> 0]
        ELSE LET pfound == longopts[found] IN
             IF eq # 0
             THEN IF pfound.has_arg # no_argument
                  THEN [g1 EXCEPT !.optarg = <<SubSeq(g.nextchar, eq + 1, Len(g.nextchar))>>]
                       @@ [c |-> pfound.val, longind |-> found - 1]
                  ELSE [g1 EXCEPT !.optopt = pfound.val] @@ [c |-> "?", longind |-> 0]
             ELSE IF pfound.has_arg = required_argument
                  THEN IF g1.optind < Argc(g1)
                       THEN [g1 EXCEPT !.optarg = <<Arg(g1, g1.optind)>>, !.optind = @ + 1]
                            @@ [c |-> pfound.val, longind |-> found - 1]
                       ELSE [g1 EXCEPT !.optopt = pfound.val]
                            @@ [c |-> IF optstring[1] = ":" THEN ":" ELSE "?",
                                longind |-> 0]
             ELSE g1 @@ [c |-> pfound.val, longind |-> found - 1]

\* the next short option character of the element nextchar points into
ShortOptionChar(g, ch, rest, optstring, longopts) ==
    LET temp == FindFirstOf(optstring, ch)
        At(k) == IF k <= Len(optstring) THEN optstring[k] ELSE NUL
        missing == [g EXCEPT !.optopt = ch, !.nextchar = <<>>]
                   @@ [c |-> IF optstring[1] = ":" THEN ":" ELSE "?", longind |-> 0]
    IN  IF temp = 0 \/ ch = ":" \/ ch = ";"
        THEN [g EXCEPT !.optopt = ch] @@ [c |-> "?", longind |-> 0]
        ELSE IF ch = "W" /\ At(temp + 1) = ";"
        THEN \* -W foo is --foo
             IF rest # <<>>
             THEN ProcessLongOption(g, optstring, longopts)
             ELSE IF g.optind = Argc(g)
                  THEN missing
                  ELSE ProcessLongOption([g EXCEPT !.nextchar = Arg(g, g.optind)],
                                         optstring, longopts)
        ELSE IF At(temp + 1) = ":"
        THEN IF At(temp + 2) = ":"
             THEN \* an optional argument: only the rest of this element
                  IF rest # <<>>
                  THEN [g EXCEPT !.optarg = <<rest>>, !.optind = @ + 1, !.nextchar = <<>>]
                       @@ [c |-> ch, longind |-> 0]
                  ELSE g @@ [c |-> ch, longind |-> 0]
             ELSE \* a required argument: the rest of this element, or the next
                  IF rest # <<>>
                  THEN [g EXCEPT !.optarg = <<rest>>, !.optind = @ + 1, !.nextchar = <<>>]
                       @@ [c |-> ch, longind |-> 0]
                  ELSE IF g.optind = Argc(g)
                       THEN missing
                       ELSE [g EXCEPT !.optarg = <<Arg(g, g.optind)>>, !.optind = @ + 1]
                            @@ [c |-> ch, longind |-> 0]
        ELSE g @@ [c |-> ch, longind |-> 0]

\* c = *nextchar++, and optind moves on with the last character of an element
ShortOption(g0, optstring, longopts) ==
    Then([g0 EXCEPT !.nextchar = Tail(@),
                    !.optind = IF Tail(g0.nextchar) = <<>> THEN @ + 1 ELSE @],
         LAMBDA g : ShortOptionChar(g, Head(g0.nextchar), Tail(g0.nextchar),
                                    optstring, longopts))

\* the branch of _getopt_internal_r that advances to the next argv element:
\* the bounds of the skipped non-options never lie beyond optind
ClampNonOptions(g) ==
    [g EXCEPT !.last_nonopt = IF @ > g.optind THEN g.optind ELSE @,
              !.first_nonopt = IF @ > g.optind THEN g.optind ELSE @]

PermuteSkipped(g) ==
    IF g.first_nonopt # g.last_nonopt /\ g.last_nonopt # g.optind
    THEN Exchange(g)
    ELSE IF g.last_nonopt # g.optind
         THEN [g EXCEPT !.first_nonopt = g.optind]
         ELSE g

MarkLastNonOption(g) == [g EXCEPT !.last_nonopt = g.optind]

EndOfOptions(d) ==
    [(IF d.first_nonopt # d.last_nonopt /\ d.last_nonopt # d.optind
      THEN Exchange(d)
      ELSE IF d.first_nonopt = d.last_nonopt
           THEN [d EXCEPT !.first_nonopt = d.optind]
           ELSE d)
     EXCEPT !.last_nonopt = Argc(d), !.optind = Argc(d)]

\* the element "--" ends the options
DashDash(g) ==
    IF g.optind # Argc(g) /\ Arg(g, g.optind) = <<"-", "-">>
    THEN Then([g EXCEPT !.optind = @ + 1], EndOfOptions)
    ELSE g

AtElement(g, optstring, longopts) ==
    IF g.optind = Argc(g)
    THEN [g EXCEPT !.optind = IF g.first_nonopt # g.last_nonopt
                              THEN g.first_nonopt ELSE @]
         @@ [c |-> EOF, longind |-> 0]
    ELSE LET tok == Arg(g, g.optind) IN
         IF tok[2] = "-"
         THEN Then([g EXCEPT !.nextchar = SubSeq(tok, 3, Len(tok))],
                   LAMBDA h : ProcessLongOption(h, optstring, longopts))
         ELSE Then([g EXCEPT !.nextchar = Tail(tok)],
                   LAMBDA h : ShortOption(h, optstring, longopts))

NextElement(g0, optstring, longopts) ==
    Then(Then(Then(Then(Then(g0, ClampNonOptions), PermuteSkipped), SkipNonOptions),
              MarkLastNonOption),
         LAMBDA g3 : Then(DashDash(g3), LAMBDA g4 : AtElement(g4, optstring, longopts)))

GetoptEnter(g) ==
    IF g.optind = 0 \/ ~g.initialized
    THEN GetoptInitialize([g EXCEPT !.optarg = <<>>])
    ELSE [g EXCEPT !.optarg = <<>>]

GetoptScan(g, optstring, longopts) ==
    IF Argc(g) < 1 THEN g @@ [c |-> EOF, longind |-> 0]
    ELSE IF g.nextchar = <<>> THEN NextElement(g, optstring, longopts)
    ELSE ShortOption(g, optstring, longopts)

GetoptLong(g0, optstring, longopts) ==
    Then(GetoptEnter(g0), LAMBDA g : GetoptScan(g, optstring, longopts))

(***************************************************************************)
(* parse(): one iteration of the loop (lines 350-397) on the value c that  *)
(* getopt_long returned.  brk tells whether the loop is left.              *)
(***************************************************************************)
\* std::map::operator[]: a missing key is inserted with a default value
MapAt(map, key, default) == IF key \in DOMAIN map THEN map[key] ELSE default

MapTouch(map, key, default) == IF key \in DOMAIN map THEN map ELSE (key :> default) @@ map

\* lines 391-396
RecordOption(options, index, arg) ==
    (index :> StringValueAdd(MapAt(options, index, NullStrValue),
                             IF arg = <<>> THEN <<>> ELSE arg[1]))
    @@ options

\* Dispatch with operator[] of line 365 inserting under a key of its own
DispatchInserting(r, d) ==
    IF r.c = EOF THEN [d EXCEPT !.brk = TRUE]
    ELSE IF r.c = NUL
    THEN LET key == <<"-", "-">> \o d.longOptNames[r.longind + 1]
             index == MapAt(d.indexMap, key, 0)
         IN  [d EXCEPT !.indexMap = MapTouch(@, key, 0),
                       !.options = RecordOption(@, index, r.optarg)]
    ELSE IF r.c = "?"
    THEN [d EXCEPT !.errorStr = AddErrorStr(@, StrUnknownOption \o <<r.optopt>>)]
    ELSE IF r.c = ":"
    THEN [d EXCEPT !.errorStr = AddErrorStr(@, StrMissingArg \o <<r.optopt>>)]
    ELSE LET str == <<r.c>> IN
         IF str \notin DOMAIN d.indexMap
         THEN [d EXCEPT !.errorStr = AddErrorStr(@, StrUnknownShort \o str),
                        !.brk = TRUE]
         ELSE [d EXCEPT !.options = RecordOption(@, d.indexMap[str], r.optarg)]

\* Dispatch with the scanner's '?' and ':' ending the loop
DispatchFatal(r, d) ==
    IF r.c = EOF THEN [d EXCEPT !.brk = TRUE]
    ELSE IF r.c = NUL
    THEN LET key == d.longOptNames[r.longind + 1]
             index == MapAt(d.indexMap, key, 0)
         IN  [d EXCEPT !.indexMap = MapTouch(@, key, 0),
                       !.options = RecordOption(@, index, r.optarg)]
    ELSE IF r.c = "?"
    THEN [d EXCEPT !.errorStr = AddErrorStr(@, StrUnknownOption \o <<r.optopt>>),
                   !.brk = TRUE]
    ELSE IF r.c = ":"
    THEN [d EXCEPT !.errorStr = AddErrorStr(@, StrMissingArg \o <<r.optopt>>),
                   !.brk = TRUE]
    ELSE LET str == <<r.c>> IN
         IF str \notin DOMAIN d.indexMap
         THEN [d EXCEPT !.errorStr = AddErrorStr(@, StrUnknownShort \o str),
                        !.brk = TRUE]
         ELSE [d EXCEPT !.options = RecordOption(@, d.indexMap[str], r.optarg)]

Dispatch(r, d) ==
    IF r.c = EOF THEN [d EXCEPT !.brk = TRUE]
    ELSE IF r.c = NUL
    THEN LET key == d.longOptNames[r.longind + 1]
             index == MapAt(d.indexMap, key, 0)
         IN  [d EXCEPT !.indexMap = MapTouch(@, key, 0),
                       !.options = RecordOption(@, index, r.optarg)]
    ELSE IF r.c = "?"
    THEN [d EXCEPT !.errorStr = AddErrorStr(@, StrUnknownOption \o <<r.optopt>>)]
    ELSE IF r.c = ":"
    THEN [d EXCEPT !.errorStr = AddErrorStr(@, StrMissingArg \o <<r.optopt>>)]
    ELSE LET str == <<r.c>> IN
         IF str \notin DOMAIN d.indexMap
         THEN [d EXCEPT !.errorStr = AddErrorStr(@, StrUnknownShort \o str),
                        !.brk = TRUE]
         ELSE [d EXCEPT !.options = RecordOption(@, d.indexMap[str], r.optarg)]

\* lines 399-404 with the loop starting one element late
RECURSIVE AddArgumentsLate(_, _, _)
AddArgumentsLate(sv, av, k) ==
    IF k + 1 < Len(av)
    THEN Then(StringValueAdd(sv, av[k + 2]), LAMBDA sw : AddArgumentsLate(sw, av, k + 1))
    ELSE sv

\* lines 399-404: the elements from optind on, in order
RECURSIVE AddArguments(_, _, _)
AddArguments(sv, av, k) ==
    IF k < Len(av)
    THEN Then(StringValueAdd(sv, av[k + 1]), LAMBDA sw : AddArguments(sw, av, k + 1))
    ELSE sv

\* operator[], lines 419-434; the exception is the value "throw"
OptionAt(opt) ==
    IF opt \notin DOMAIN m_indexMap THEN "throw"
    ELSE MapAt(m_options, m_indexMap[opt], NullStrValue)

(***************************************************************************)
(* Inputs.                                                                 *)
(***************************************************************************)
SeqsUpTo(S, n) == UNION {[1..k -> S] : k \in 0..n}

RECURSIVE JoinLines(_)
JoinLines(ls) ==
    IF ls = <<>> THEN <<>>
    ELSE IF Len(ls) = 1 THEN ls[1]
    ELSE ls[1] \o <<NL>> \o JoinLines(Tail(ls))

Prog == <<"p","r","o","g">>

\* usage lines
LAll == <<"-","a",","," ","-","-","a","l","l">>
LDelta == <<"-","d",","," ","-","-","d","e","l","t","a","=","N","U","M">>
LEpsilon == <<"-","e",","," ","-","-","e","p","s","i","l","o","n","[","=","N","U","M","]">>
LFile == <<"-","f"," ","F","I","L","E">>
LV == <<"-","v">>
LHelp == <<"-","?",","," ","-","-","h","e","l","p">>
LOther == <<"-","a",","," ","-","-","o","t","h","e","r">>
LLongA == <<"-","-","a">>
LUnclosed == <<"-","-","e","p","s","i","l","o","n","[","=","N","U","M">>
LFileN == <<"-","f"," ","N">>
LProse == <<"s","h","o","w"," ","a","l","l"," ","e","l","e","m","e","n","t","s">>
LC == <<"-","c"," ","n","o"," ","a","r","g","u","m","e","n","t"," ","h","e","r","e">>
LFileV == <<"-","f"," ","-","v">>
LOneChar == <<"a"," ","f","i","l","e">>

\* the usage lines of SpecBuild
UsageLines ==
    {LAll, LDelta, LEpsilon, LFile, LV, LHelp, LOther, LLongA, LUnclosed, LFileN,
     LProse, LC, LFileV, LOneChar}

\* argv elements
TAll == <<"-","-","a","l","l">>
TA == <<"-","a">>
TDelta == <<"-","-","d","e","l","t","a">>
TD == <<"-","d">>
T5 == <<"5">>
TFile == <<"f","i","l","e",".","t","x","t">>
TZ == <<"-","z">>
TE == <<"-","e">>
TEpsilon9 == <<"-","-","e","p","s","i","l","o","n","=","9">>
TV == <<"-","v">>
TQ == <<"-","?">>
THelp == <<"-","-","h","e","l","p">>
TX == <<"x">>
TZV == <<"-","z","v">>
TOther == <<"-","-","o","t","h","e","r">>
TLongA == <<"-","-","a">>

\* the usage texts of Spec, each with the argv elements tried against it
Scenarios ==
    { [usage |-> JoinLines(<<LAll, LDelta>>),
       tokens |-> {TAll, TA, TDelta, TD, T5, TFile, TZ}],
      [usage |-> LEpsilon, tokens |-> {TE, TEpsilon9, TFile}],
      [usage |-> JoinLines(<<LV, LHelp>>), tokens |-> {TV, TQ, THelp, TX, TZV}],
      [usage |-> JoinLines(<<LAll, LOther>>), tokens |-> {TOther, TA, TFile, TZ}],
      [usage |-> JoinLines(<<LLongA, LV>>), tokens |-> {TLongA, TV, TFile}] }

TokensFor(usage) == UNION {sc.tokens : sc \in {x \in Scenarios : x.usage = usage}}

(***************************************************************************)
(* The state machine.                                                      *)
(***************************************************************************)
Init ==
    /\ m_usage = <<>>
    /\ m_errorStr = <<>>
    /\ m_shortOptStr = <<":">>
    /\ m_longOptions = <<>>
    /\ m_longOptNames = <<>>
    /\ m_maxIndex = 0
    /\ m_indexMap = <<>>
    /\ m_options = <<>>
    /\ m_arguments = NullStrValue
    /\ s = <<>>
    /\ i = 0
    /\ optind = 1
    /\ optarg = <<>>
    /\ optopt = "?"
    /\ gd = [nextchar |-> <<>>, first_nonopt |-> 0, last_nonopt |-> 0,
             initialized |-> FALSE, optopt |-> NUL]
    /\ argv = <<>>
    /\ argv_in = <<>>
    /\ c = NUL
    /\ ncalls = 0
    /\ pc = "idle"
    /\ nLines = 0
    /\ nTokens = 0
    /\ nParse = 0
    /\ sval = NullStrValue
    /\ added = <<>>
    /\ vec = [state |-> "none", strings |-> <<>>]

\* operator<<(usage), lines 311-315, up to the loop of init()
OperatorShl(usage, cost) ==
    /\ pc = "idle"
    /\ m_usage' = usage
    /\ s' = usage
    /\ i' = 0
    /\ pc' = "init"
    /\ nLines' = nLines + cost
    /\ UNCHANGED valueVars
    /\ UNCHANGED <<m_errorStr, tableVars, m_options, m_arguments, scanVars,
                   nTokens, nParse>>

\* init(), lines 524-526: one turn of the loop
ParseLine ==
    /\ pc = "init"
    /\ good
    /\ GetLine(s).ok
    /\ \E t \in {ParseLineOf(Table, i, GetLine(s).line)} :
         /\ m_shortOptStr' = t.shortOptStr
         /\ m_longOptions' = t.longOptions
         /\ m_longOptNames' = t.longOptNames
         /\ m_maxIndex' = t.maxIndex
         /\ m_indexMap' = t.indexMap
         /\ m_errorStr' = t.errorStr
    /\ s' = GetLine(s).rest
    /\ i' = i + 1
    /\ UNCHANGED valueVars
    /\ UNCHANGED <<m_usage, m_options, m_arguments, scanVars, pc, nLines, nTokens,
                   nParse>>

\* init(), lines 528-531, once the loop has ended
InitEnd ==
    /\ pc = "init"
    /\ ~(good /\ GetLine(s).ok)
    /\ m_longOptions' = FinishLongOptions(m_longOptions, m_longOptNames)
    /\ pc' = "idle"
    /\ UNCHANGED valueVars
    /\ UNCHANGED <<m_usage, m_errorStr, m_shortOptStr, m_longOptNames, m_maxIndex,
                   m_indexMap, m_options, m_arguments, s, i, scanVars, nLines,
                   nTokens, nParse>>

\* parse(argc, argv) is entered.  &m_longOptions[0] is defined only once init()
\* has pushed the terminator, so the call is made on a built table.
ParseCall(args) ==
    /\ pc = "idle"
    /\ m_longOptions # <<>>
    /\ argv' = args
    /\ argv_in' = args
    /\ ncalls' = 0
    /\ pc' = "scanning"
    /\ nTokens' = nTokens + Len(args)
    /\ nParse' = nParse + 1
    /\ UNCHANGED valueVars
    /\ UNCHANGED <<m_usage, m_errorStr, tableVars, m_options, m_arguments, s, i,
                   optind, optarg, optopt, gd, c, nLines>>

Scanner ==
    [argv |-> argv, optind |-> optind, optarg |-> optarg, optopt |-> gd.optopt,
     nextchar |-> gd.nextchar, first_nonopt |-> gd.first_nonopt,
     last_nonopt |-> gd.last_nonopt, initialized |-> gd.initialized]

Dispatcher ==
    [options |-> m_options, errorStr |-> m_errorStr, indexMap |-> m_indexMap,
     longOptNames |-> m_longOptNames, brk |-> FALSE]

\* parse(), lines 350-397: one getopt_long call and what the loop does with it
ScanStep ==
    /\ pc = "scanning"
    /\ \E r \in {GetoptLong(Scanner, m_shortOptStr, m_longOptions)} :
       \E d \in {Dispatch(r, Dispatcher)} :
           /\ c' = r.c
           /\ argv' = r.argv
           /\ optind' = r.optind
           /\ optarg' = r.optarg
           /\ optopt' = r.optopt
           /\ gd' = [nextchar |-> r.nextchar, first_nonopt |-> r.first_nonopt,
                     last_nonopt |-> r.last_nonopt, initialized |-> r.initialized,
                     optopt |-> r.optopt]
           /\ m_options' = d.options
           /\ m_errorStr' = d.errorStr
           /\ m_indexMap' = d.indexMap
           /\ pc' = IF d.brk THEN "done" ELSE "scanning"
    /\ ncalls' = ncalls + 1
    /\ UNCHANGED valueVars
    /\ UNCHANGED <<m_usage, m_shortOptStr, m_longOptions, m_longOptNames, m_maxIndex,
                   m_arguments, s, i, argv_in, nLines, nTokens, nParse>>

\* line 407 left out: optind stays where the scan ended
ResetOptindSkipped == optind

\* the value line 407 leaves in optind
ResetOptind == 0

\* parse(), lines 399-407, after the loop
ParseFinish ==
    /\ pc = "done"
    /\ m_arguments' = AddArguments(m_arguments, argv, optind)
    /\ optind' = ResetOptind
    /\ pc' = "idle"
    /\ UNCHANGED valueVars
    /\ UNCHANGED <<m_usage, m_errorStr, tableVars, m_options, s, i, optarg, optopt,
                   gd, argv, argv_in, c, ncalls, nLines, nTokens, nParse>>

\* Spec: a table is built once from a scenario's usage text and then parse()
\* is called on argv lists over the scenario's elements.
Next ==
    \/ \E sc \in Scenarios : nLines = 0 /\ OperatorShl(sc.usage, 1)
    \/ ParseLine
    \/ InitEnd
    \/ \E args \in SeqsUpTo(TokensFor(m_usage), MaxTokens - nTokens - 1) :
          ParseCall(<<Prog>> \o args)
    \/ ScanStep
    \/ ParseFinish

Spec == Init /\ [][Next]_vars

\* parse() runs without suspension: once entered, its loop and its tail are
\* executed
SpecLive == Spec /\ WF_vars(ScanStep) /\ WF_vars(ParseFinish)

\* SpecBuild: operator<< alone, on every text of at most MaxLines usage lines
\* in all; the empty text counts as one line.
NextBuild ==
    \/ \E ls \in SeqsUpTo(UsageLines, MaxLines - nLines) :
          /\ nLines < MaxLines
          /\ OperatorShl(JoinLines(ls), Max(1, Len(ls)))
    \/ ParseLine
    \/ InitEnd

SpecBuild == Init /\ [][NextBuild]_vars

(***************************************************************************)
(* A whole parse() call as one computation, for comparing two calls.       *)
(***************************************************************************)
ScannerOf(r) ==
    [argv |-> r.argv, optind |-> r.optind, optarg |-> r.optarg, optopt |-> r.optopt,
     nextchar |-> r.nextchar, first_nonopt |-> r.first_nonopt,
     last_nonopt |-> r.last_nonopt, initialized |-> r.initialized]

\* lines 350-397: the loop, from scanner state g and dispatcher state d
RECURSIVE ParseLoop(_, _)
ParseLoop(g, d) ==
    Then(GetoptLong(g, m_shortOptStr, m_longOptions),
         LAMBDA r : Then(Dispatch(r, d),
                         LAMBDA e : IF e.brk THEN [g |-> ScannerOf(r), d |-> e]
                                    ELSE ParseLoop(ScannerOf(r), e)))

\* lines 346-408 from scanner state g, with options and arguments as given
ParseFrom(g, d, arguments) ==
    Then(ParseLoop(g, d),
         LAMBDA x : [options |-> x.d.options, errorStr |-> x.d.errorStr,
                     arguments |-> AddArguments(arguments, x.g.argv, x.g.optind)])

\* parse() of av on the table as it stands, nothing recorded before and the
\* scanner at its start
ParseAlone(av) ==
    ParseFrom([argv |-> av, optind |-> 0, optarg |-> <<>>, optopt |-> gd.optopt,
               nextchar |-> <<>>, first_nonopt |-> 0, last_nonopt |-> 0,
               initialized |-> gd.initialized],
              [Dispatcher EXCEPT !.options = <<>>], NullStrValue)

(***************************************************************************)
(* Reading the state.                                                      *)
(***************************************************************************)
\* text split at every newline: the strings add() joined, when none holds one
RECURSIVE SplitNL(_)
SplitNL(str) ==
    LET p == FindFirstOf(str, NL) IN
    IF p = 0 THEN <<str>>
    ELSE <<SubSeq(str, 1, p - 1)>> \o SplitNL(SubSeq(str, p + 1, Len(str)))

Values(sv) == IF sv.m_count = 0 THEN <<>> ELSE SplitNL(sv.m_text)

RECURSIVE AddAll(_, _)
AddAll(sv, strs) ==
    IF strs = <<>> THEN sv ELSE AddAll(StringValueAdd(sv, Head(strs)), Tail(strs))

RECURSIVE LinesOf(_)
LinesOf(str) ==
    IF ~GetLine(str).ok THEN <<>>
    ELSE <<GetLine(str).line>> \o LinesOf(GetLine(str).rest)

Range(f) == {f[x] : x \in DOMAIN f}

\* a parse() call has returned, and it was the first on this parser
FirstParseDone == pc = "idle" /\ nParse = 1


(***************************************************************************)
(* What the usage text declares, line by line, and what an argv asks for   *)
(* when every option token is read with the arity its line declares.       *)
(***************************************************************************)
UsageScans == [k \in 1..Len(LinesOf(m_usage)) |-> ScanLine(LinesOf(m_usage)[k])]

AliasesOf(sc) ==
    (IF sc.shortOpt # NUL THEN {<<sc.shortOpt>>} ELSE {})
    \cup (IF sc.longOpt # <<>> THEN {sc.longOpt} ELSE {})

UsageOpts == {sc \in Range(UsageScans) : sc.ret = "option"}

UsageAliases == UNION {AliasesOf(sc) : sc \in UsageOpts}

\* every line is an option line or an ignored one, and no alias is declared twice
UsageClean ==
    /\ \A sc \in Range(UsageScans) : sc.ret # "false"
    /\ \A k \in DOMAIN UsageScans :
          UsageScans[k].ret = "option" =>
             /\ UsageScans[k].longOpt # <<UsageScans[k].shortOpt>>
             /\ \A j \in 1..(k - 1) :
                   UsageScans[j].ret = "option" =>
                      AliasesOf(UsageScans[j]) \cap AliasesOf(UsageScans[k]) = {}

DeclaredArity(alias) ==
    (CHOOSE sc \in UsageOpts : alias \in AliasesOf(sc)).argReqmt

NoWalk == [ok |-> FALSE, occ |-> <<>>, pos |-> <<>>]

Occurred(alias, value, w) == [w EXCEPT !.occ = <<[alias |-> alias, value |-> value]>> \o @]

\* argv read left to right from element j: option tokens first ("-x", "--name",
\* "--name=value", a Required option taking the next token when none is
\* attached), then only non-option tokens.  ok is FALSE for any other shape.
RECURSIVE Walk(_, _)
WalkOption(av, j) ==
    LET tok == av[j]
        eq == FindFirstOf(tok, "=")
        isLong == tok[2] = "-"
        alias == IF ~isLong THEN <<tok[2]>>
                 ELSE SubSeq(tok, 3, IF eq = 0 THEN Len(tok) ELSE eq - 1)
        attached == IF isLong /\ eq # 0 THEN <<SubSeq(tok, eq + 1, Len(tok))>> ELSE <<>>
    IN  IF (~isLong /\ Len(tok) # 2) \/ alias \notin UsageAliases THEN NoWalk
        ELSE IF DeclaredArity(alias) = no_argument
        THEN IF attached # <<>> THEN NoWalk
             ELSE Then(Walk(av, j + 1), LAMBDA w : Occurred(alias, <<>>, w))
        ELSE IF attached # <<>>
        THEN Then(Walk(av, j + 1), LAMBDA w : Occurred(alias, attached[1], w))
        ELSE IF DeclaredArity(alias) = optional_argument
        THEN Then(Walk(av, j + 1), LAMBDA w : Occurred(alias, <<>>, w))
        ELSE IF j < Len(av)
        THEN Then(Walk(av, j + 2), LAMBDA w : Occurred(alias, av[j + 1], w))
        ELSE NoWalk

Walk(av, j) ==
    IF j > Len(av) THEN [ok |-> TRUE, occ |-> <<>>, pos |-> <<>>]
    ELSE IF NonOption(av[j])
    THEN [ok |-> \A k \in j..Len(av) : NonOption(av[k]), occ |-> <<>>,
          pos |-> SubSeq(av, j, Len(av))]
    ELSE WalkOption(av, j)

\* the values the occurrences of w give the identity id, in argv order
ValuesFor(w, id) ==
    LET mine == SelectSeq(w.occ, LAMBDA o : m_indexMap[o.alias] = id)
    IN  [k \in 1..Len(mine) |-> mine[k].value]


(***************************************************************************)
(* C1.  Once a table has been built without diagnostics, a parse() of an   *)
(* argv of the shape [program name, option tokens..., non-option           *)
(* tokens...] records every option occurrence under its option's identity, *)
(* records every trailing non-option token as a positional in order, and   *)
(* leaves good() true.  Stated for the first parse() of a parser.          *)
(***************************************************************************)
C1_ParseRecordsAll ==
    (FirstParseDone /\ UsageClean /\ Walk(argv_in, 2).ok) =>
        LET w == Walk(argv_in, 2) IN
        /\ good
        /\ \A a \in UsageAliases :
              /\ a \in DOMAIN m_indexMap
              /\ OptionAt(a) = AddAll(NullStrValue, ValuesFor(w, m_indexMap[a]))
        /\ m_arguments = AddAll(NullStrValue, w.pos)

(***************************************************************************)
(* C2.  An option line '-x, --name[=ARG]' registers both aliases with      *)
(* arity Optional: the option alone, through either alias, is accepted     *)
(* without a diagnostic and records an empty value, and '--name=value'     *)
(* records the value.                                                      *)
(***************************************************************************)
ShortToken(ch) == <<"-", ch>>
LongToken(name) == <<"-", "-">> \o name
Recorded(value) == [m_text |-> value, m_count |-> 1]

C2_OptionalArity ==
    (FirstParseDone /\ UsageClean) =>
        \A sc \in UsageOpts :
            (sc.argReqmt = optional_argument /\ sc.shortOpt # NUL /\ sc.longOpt # <<>>) =>
                /\ <<sc.shortOpt>> \in DOMAIN m_indexMap
                /\ sc.longOpt \in DOMAIN m_indexMap
                /\ m_indexMap[<<sc.shortOpt>>] = m_indexMap[sc.longOpt]
                /\ argv_in = <<Prog, ShortToken(sc.shortOpt)>> =>
                      good /\ OptionAt(<<sc.shortOpt>>) = Recorded(<<>>)
                /\ argv_in = <<Prog, LongToken(sc.longOpt)>> =>
                      good /\ OptionAt(sc.longOpt) = Recorded(<<>>)
                /\ argv_in = <<Prog, LongToken(sc.longOpt) \o <<"=", "9">>>> =>
                      good /\ OptionAt(sc.longOpt) = Recorded(<<"9">>)

(***************************************************************************)
(* C3.  Table building goes on after a diagnostic: when operator<< has     *)
(* returned, every line of the usage text has been taken, and the aliases  *)
(* of every valid option line, before or after a faulty one, are           *)
(* registered.                                                             *)
(***************************************************************************)
C3_BuildGoesOn ==
    pc = "idle" =>
        /\ ~GetLine(s).ok
        /\ (m_usage # <<>> => i = Len(LinesOf(m_usage)))
        /\ UsageAliases \subseteq DOMAIN m_indexMap

(***************************************************************************)
(* C4.  An option line '-x, --name' registers both aliases under one       *)
(* identity: the occurrences given through either alias accumulate in one  *)
(* value that both aliases read, so its count is the number of tokens of   *)
(* argv that name either alias.                                            *)
(***************************************************************************)
C4_SharedIdentity ==
    (FirstParseDone /\ UsageClean /\ Walk(argv_in, 2).ok) =>
        \A sc \in UsageOpts :
            (sc.shortOpt # NUL /\ sc.longOpt # <<>> /\ sc.argReqmt = no_argument) =>
                LET given == SelectSeq(Walk(argv_in, 2).occ,
                                       LAMBDA o : o.alias \in AliasesOf(sc))
                IN  /\ <<sc.shortOpt>> \in DOMAIN m_indexMap
                    /\ sc.longOpt \in DOMAIN m_indexMap
                    /\ m_indexMap[<<sc.shortOpt>>] = m_indexMap[sc.longOpt]
                    /\ OptionAt(<<sc.shortOpt>>) = OptionAt(sc.longOpt)
                    /\ Count(OptionAt(sc.longOpt)) = Len(given)


(***************************************************************************)
(* C5.  Registering an alias, short char or long name, that the alias      *)
(* index already holds appends a duplicate-option diagnostic, makes good() *)
(* false and leaves every existing alias on the identity it had; a short   *)
(* char equal to an existing long name, and a long name equal to an        *)
(* existing short char, are duplicates too.  A line with no duplicate      *)
(* alias adds no diagnostic.                                               *)
(***************************************************************************)
ParseLineStep == pc = "init" /\ i' = i + 1

DupShort(sc) == sc.shortOpt # NUL /\ <<sc.shortOpt>> \in DOMAIN m_indexMap

DupLong(sc) ==
    /\ sc.longOpt # <<>>
    /\ (sc.longOpt \in DOMAIN m_indexMap \/ sc.longOpt = <<sc.shortOpt>>)

DupDiagnostics(sc) ==
    LET e1 == IF DupShort(sc)
              THEN AddErrorStr(m_errorStr, StrDupShort \o <<sc.shortOpt>>)
              ELSE m_errorStr
    IN  IF DupLong(sc) THEN AddErrorStr(e1, StrDupLong \o sc.longOpt) ELSE e1

C5_DuplicateAlias ==
    [][ParseLineStep =>
         LET sc == ScanLine(GetLine(s).line) IN
         sc.ret = "option" =>
            /\ m_errorStr' = DupDiagnostics(sc)
            /\ (DupShort(sc) \/ DupLong(sc)) => ~Good(m_errorStr')
            /\ \A a \in DOMAIN m_indexMap :
                  a \in DOMAIN m_indexMap' /\ m_indexMap'[a] = m_indexMap[a]]_vars

\* '--a' then '-a, --all': the short char a collides with the long name a
C5_Witness ==
    /\ pc = "idle"
    /\ m_usage = JoinLines(<<LLongA, LAll>>)
    /\ m_errorStr = StrDupShort \o <<"a">>
    /\ m_indexMap[<<"a">>] = 0
    /\ m_longOptNames = <<<<"a">>, <<"a", "l", "l">>>>

(***************************************************************************)
(* C6.  When the scanner reports an unrecognized option or a missing       *)
(* required argument, parse() appends the diagnostic naming the option,    *)
(* good() becomes false, nothing is recorded for that token and the loop   *)
(* goes on: the options and positionals recorded by the whole call are     *)
(* those the call records with the unrecognized tokens taken out of argv.  *)
(***************************************************************************)
ScanStepTaken == pc = "scanning" /\ ncalls' = ncalls + 1

\* a token "-x" whose x the table does not hold
UnknownShortToken(tok) ==
    /\ Len(tok) = 2
    /\ tok[1] = "-"
    /\ tok[2] # "-"
    /\ FindFirstOf(m_shortOptStr, tok[2]) = 0

\* the token does not take the element after it as its argument
KeepsNext(tok) ==
    /\ Len(tok) >= 2
    /\ tok[1] = "-" => FindFirstOf(tok, "=") # 0 \/
                       (tok[2] # "-" /\ Len(tok) = 2 /\
                        \E p \in 1..Len(m_shortOptStr) :
                            /\ m_shortOptStr[p] = tok[2]
                            /\ (p = Len(m_shortOptStr) \/ m_shortOptStr[p + 1] # ":")) \/
                       (tok[2] = "-" /\
                        \E k \in 1..Len(m_longOptNames) :
                            /\ m_longOptNames[k] = SubSeq(tok, 3, Len(tok))
                            /\ m_longOptions[k].has_arg # required_argument) \/
                       UnknownShortToken(tok)

WithoutUnknown(av) == SelectSeq(av, LAMBDA tok : ~UnknownShortToken(tok))

C6_Step ==
    (ScanStepTaken /\ c' \in {"?", ":"}) =>
        /\ m_errorStr' = AddErrorStr(m_errorStr,
                                     (IF c' = "?" THEN StrUnknownOption ELSE StrMissingArg)
                                     \o <<optopt'>>)
        /\ ~Good(m_errorStr')
        /\ m_options' = m_options
        /\ m_arguments' = m_arguments
        /\ pc' = "scanning"

C6_Rest ==
    (/\ FirstParseDone
     /\ \A k \in 2..Len(argv_in) : KeepsNext(argv_in[k])) =>
        LET rest == ParseAlone(WithoutUnknown(argv_in)) IN
        /\ m_options = rest.options
        /\ m_arguments = rest.arguments

C6_ScanErrorsNonFatal == [][C6_Step]_vars /\ []C6_Rest

C6_Witness ==
    /\ pc = "idle"
    /\ argv_in = <<Prog, TZ, TA, TFile>>
    /\ m_errorStr = StrUnknownOption \o <<"z">>
    /\ OptionAt(<<"a">>) = Recorded(<<>>)
    /\ m_arguments = Recorded(TFile)


(***************************************************************************)
(* C7.  Every recorded occurrence is counted and kept in argv order: an    *)
(* option of arity None given k times in one argv ends with count() = k    *)
(* and k empty values, and the i-th value of an identity is the argument   *)
(* of its i-th occurrence.  Stated for the first parse() of a parser.      *)
(***************************************************************************)
C7_OccurrencesInOrder ==
    (FirstParseDone /\ UsageClean /\ Walk(argv_in, 2).ok) =>
        \A a \in UsageAliases \cap DOMAIN m_indexMap :
            LET given == ValuesFor(Walk(argv_in, 2), m_indexMap[a]) IN
            /\ Count(OptionAt(a)) = Len(given)
            /\ Values(OptionAt(a)) = given
            /\ DeclaredArity(a) = no_argument =>
                  \A k \in 1..Len(given) : Values(OptionAt(a))[k] = <<>>

(***************************************************************************)
(* C8.  The recorded option values and positionals belong to one parse()   *)
(* call: after a call on argv B they are what dispatching B alone records, *)
(* whatever an earlier call on the same parser recorded.                   *)
(***************************************************************************)
C8_FreshPerCall ==
    (pc = "idle" /\ nParse >= 1) =>
        LET alone == ParseAlone(argv_in) IN
        /\ \A a \in DOMAIN m_indexMap :
              OptionAt(a) = MapAt(alone.options, m_indexMap[a], NullStrValue)
        /\ m_arguments = alone.arguments

(***************************************************************************)
(* C9.  When parse() returns, optind is 0, whatever diagnostics the call   *)
(* produced, so the first getopt_long call of the next parse() starts      *)
(* anew at the element after the program name, with nothing left of the    *)
(* previous scan.                                                          *)
(***************************************************************************)
C9_CursorReset ==
    /\ (pc = "idle" /\ nParse >= 1) => optind = 0
    /\ (pc = "scanning" /\ ncalls = 0) =>
          LET g == GetoptEnter(Scanner) IN
          /\ g.optind = 1
          /\ g.nextchar = <<>>
          /\ g.first_nonopt = 1
          /\ g.last_nonopt = 1

\* a second call is about to scan; the first one ended past its argv with a
\* diagnostic
C9_Witness ==
    /\ pc = "scanning"
    /\ ncalls = 0
    /\ nParse = 2
    /\ optind = 0
    /\ ~good
    /\ Len(argv_in) >= 2

(***************************************************************************)
(* C10.  A line whose first word is a short-option token and which has no  *)
(* long-option token takes its arity from its word count: Required when    *)
(* exactly one more word follows, None when the token stands alone or two  *)
(* or more words follow.  The word after the token has at least two        *)
(* characters and does not start with '-'.                                 *)
(***************************************************************************)
IsShortToken(word) ==
    /\ Len(word) \in {2, 3}
    /\ word[1] = "-"
    /\ word[2] # "-"
    /\ Len(word) = 3 => word[3] = ","

IsLongToken(word) == Len(word) >= 2 /\ word[1] = "-" /\ word[2] = "-"

\* the line is registered as the short option of its first word, with an
\* argument exactly when the line has two words
ShortOnlyRegistered(ws) ==
    /\ m_shortOptStr' = m_shortOptStr \o (IF Len(ws) = 2 THEN <<ws[1][2], ":">>
                                                        ELSE <<ws[1][2]>>)
    /\ m_longOptions' = m_longOptions
    /\ m_longOptNames' = m_longOptNames

C10_ShortOnlyArity ==
    [][ParseLineStep =>
         LET ws == Words(GetLine(s).line) IN
         (/\ Len(ws) >= 1
          /\ IsShortToken(ws[1])
          /\ Len(ws) >= 2 => (Len(ws[2]) >= 2 /\ ws[2][1] # "-"))
         => ShortOnlyRegistered(ws)]_vars

\* '-f FILE' is Required, '-c no argument here' is None
C10_Witness ==
    /\ pc = "idle"
    /\ m_usage = JoinLines(<<LFile, LC>>)
    /\ m_shortOptStr = <<":", "f", ":", "c">>
    /\ good

\* C10 as stated, for any word after the token
C10_AnySecondWord ==
    [][ParseLineStep =>
         LET ws == Words(GetLine(s).line) IN
         (/\ Len(ws) >= 1
          /\ IsShortToken(ws[1])
          /\ \A k \in 2..Len(ws) : ~IsLongToken(ws[k]))
         => ShortOnlyRegistered(ws)]_vars


(***************************************************************************)
(* C11.  A long-option token among the first two words of an otherwise     *)
(* valid line is classified by what follows its name: '--name' registers   *)
(* name with arity None, '--name=ARG' with arity Required and              *)
(* '--name[=ARG]' with arity Optional; a token with '[=' that does not end *)
(* with ']' makes the line invalid: the invalid-line diagnostic is         *)
(* appended and nothing is registered.                                     *)
(***************************************************************************)
NameChars(name) == \A k \in 1..Len(name) : name[k] \notin {"=", "["}

\* word is "--" name suffix, the name being all there is before '=' and '['
LongTokenParts(word) ==
    LET n == CHOOSE n \in 0..(Len(word) - 2) :
                /\ NameChars(SubSeq(word, 3, 2 + n))
                /\ (2 + n = Len(word) \/ word[3 + n] \in {"=", "["})
    IN  [name |-> SubSeq(word, 3, 2 + n), suffix |-> SubSeq(word, 3 + n, Len(word))]

\* "none", "required", "optional", "unclosed", or "other" for any other suffix
SuffixKind(suffix) ==
    IF suffix = <<>> THEN "none"
    ELSE IF suffix[1] = "=" THEN "required"
    ELSE IF Len(suffix) >= 2 /\ suffix[1] = "[" /\ suffix[2] = "="
    THEN IF suffix[Len(suffix)] = "]" THEN "optional" ELSE "unclosed"
    ELSE "other"

ArityOfKind(kind) ==
    IF kind = "none" THEN no_argument
    ELSE IF kind = "required" THEN required_argument
    ELSE optional_argument

\* the first two words are a long token, alone or after a short token or
\* before a word that is no option token
LongLineShape(ws) ==
    \/ Len(ws) >= 1 /\ IsLongToken(ws[1]) /\
       (Len(ws) >= 2 => (Len(ws[2]) >= 2 /\ ws[2][1] # "-"))
    \/ Len(ws) >= 2 /\ IsShortToken(ws[1]) /\ IsLongToken(ws[2])

LongWordOf(ws) == IF IsLongToken(ws[1]) THEN ws[1] ELSE ws[2]

ShortCharOf(ws) == IF IsLongToken(ws[1]) THEN NUL ELSE ws[1][2]

InvalidLineReported ==
    /\ m_errorStr' = AddErrorStr(m_errorStr,
                                 StrInvalidOption \o IntToString(i) \o <<NL>>
                                 \o GetLine(s).line)
    /\ UNCHANGED tableVars

C11_LongTokenClass ==
    [][ParseLineStep =>
         LET ws == Words(GetLine(s).line) IN
         LongLineShape(ws) =>
            LET parts == LongTokenParts(LongWordOf(ws))
                kind == SuffixKind(parts.suffix)
            IN  /\ (kind = "unclosed") => InvalidLineReported
                /\ (kind \in {"none", "required", "optional"} /\ parts.name # <<>>) =>
                      /\ m_longOptNames' = Append(m_longOptNames, parts.name)
                      /\ m_longOptions' =
                            Append(m_longOptions,
                                   [name |-> NullName, has_arg |-> ArityOfKind(kind),
                                    val |-> ShortCharOf(ws)])]_vars

\* all three arities registered by one usage text
C11_Witness ==
    /\ pc = "idle"
    /\ m_usage = JoinLines(<<LAll, LDelta, LEpsilon>>)
    /\ m_longOptNames = <<<<"a","l","l">>, <<"d","e","l","t","a">>,
                          <<"e","p","s","i","l","o","n">>>>
    /\ [k \in 1..3 |-> m_longOptions[k].has_arg] =
          <<no_argument, required_argument, optional_argument>>
    /\ good


Strings == {<<>>, <<"a">>, <<"b", "c">>, <<"7">>}

\* getValue(str, vec) for T = std::string, lines 241-252: one element per
\* std::getline, each copied as it is (lines 222-225)
RECURSIVE GetValueVector(_)
GetValueVector(str) ==
    IF ~GetLine(str).ok THEN <<>>
    ELSE <<GetLine(str).line>> \o GetValueVector(GetLine(str).rest)

NotConverted == [state |-> "none", strings |-> <<>>]

\* sval.add(str)
Add(str) ==
    /\ Count(sval) < MaxAdds
    /\ sval' = StringValueAdd(sval, str)
    /\ added' = Append(added, str)
    /\ vec' = NotConverted
    /\ UNCHANGED parserVars

\* sval.as<std::vector<std::string>>(): validate() throws on a null value
AsVector ==
    /\ vec = NotConverted
    /\ vec' = IF sval.m_count = 0 THEN [state |-> "thrown", strings |-> <<>>]
              ELSE [state |-> "value", strings |-> GetValueVector(sval.m_text)]
    /\ UNCHANGED <<sval, added, parserVars>>

NextValue ==
    \/ \E str \in Strings : Add(str)
    \/ AsVector

SpecValue == Init /\ [][NextValue]_vars

(***************************************************************************)
(* C13.  After strings s1..sk without a newline have been added to a       *)
(* StringValue, its conversion to a sequence of strings is s1..sk in       *)
(* order, so its length is count(); a value holding one added string       *)
(* converts to a sequence of size 1.                                       *)
(***************************************************************************)
C13_RoundTrip ==
    vec.state = "value" =>
        /\ vec.strings = added
        /\ Len(vec.strings) = Count(sval)
        /\ Count(sval) = 1 => Len(vec.strings) = 1


(***************************************************************************)
(* C14.  An argv token the scanner matches as the long option named N is   *)
(* recorded under the identity the alias index maps N to, the one          *)
(* operator[](N) reads, for every table the builder produces, those built  *)
(* with duplicate-alias diagnostics included.  Stated for a first parse()  *)
(* whose argv holds only tokens '--N' and '--N=9' of registered long       *)
(* names that take them, and for long options whose short char is not one  *)
(* of the scanner's own signals '?' and ':'.                               *)
(***************************************************************************)
\* the long name the token spells, with its argument if one is attached
LongNameOf(tok) ==
    LET eq == FindFirstOf(tok, "=") IN
    [name |-> SubSeq(tok, 3, IF eq = 0 THEN Len(tok) ELSE eq - 1), attached |-> eq # 0]

\* the scanner matches tok as a long option of the table: the name is one of
\* m_longOptNames, and the argument is attached exactly as its arity allows
MatchesLong(tok) ==
    /\ IsLongToken(tok)
    /\ \E k \in 1..Len(m_longOptNames) : m_longOptNames[k] = LongNameOf(tok).name
    /\ LET k == Min({j \in 1..Len(m_longOptNames) :
                        m_longOptNames[j] = LongNameOf(tok).name})
       IN  /\ m_longOptions[k].val \notin {"?", ":"}
           /\ IF LongNameOf(tok).attached
              THEN m_longOptions[k].has_arg # no_argument
              ELSE m_longOptions[k].has_arg # required_argument

C14_LongIdentity ==
    (/\ FirstParseDone
     /\ \A k \in 2..Len(argv_in) : MatchesLong(argv_in[k])) =>
        \A id \in 0..m_maxIndex :
            Count(MapAt(m_options, id, NullStrValue)) =
               Cardinality({k \in 2..Len(argv_in) :
                               m_indexMap[LongNameOf(argv_in[k]).name] = id})


(***************************************************************************)
(* C15.  parse() reads the option table and never writes it: every step of *)
(* a parse() call, from its entry to its return, leaves the alias index,   *)
(* the short-option string, the long-option descriptors and names and the  *)
(* next identity unchanged, for any argv and any built table.              *)
(***************************************************************************)
ParseStep == pc' = "scanning" \/ pc = "scanning" \/ pc = "done"

C15_TableReadOnly == [][ParseStep => UNCHANGED tableVars]_vars

\* a long-only option has been recorded through the alias index (line 365)
\* and the index still holds what the builder put there
C15_Witness ==
    /\ pc = "idle"
    /\ m_usage = JoinLines(<<LLongA, LV>>)
    /\ argv_in = <<Prog, TLongA, TV>>
    /\ m_indexMap = (<<"a">> :> 0) @@ (<<"v">> :> 1)
    /\ m_options = (0 :> Recorded(<<>>)) @@ (1 :> Recorded(<<>>))


(***************************************************************************)
(* C16.  Diagnostics are append-only and good() is monotone: good() is     *)
(* true as long as no step has changed the diagnostic text, every change   *)
(* keeps the earlier text as a proper prefix, and once good() is false it  *)
(* stays false through the table build and every later parse().           *)
(***************************************************************************)
C16_Step ==
    /\ m_errorStr' # m_errorStr =>
          /\ IsPrefix(m_errorStr, m_errorStr')
          /\ Len(m_errorStr') > Len(m_errorStr)
          /\ ~Good(m_errorStr')
    /\ ~Good(m_errorStr) => ~Good(m_errorStr')

C16_AppendOnly == good /\ [][C16_Step]_vars

\* a diagnostic of the table build followed by one of parse()
C16_Witness ==
    /\ pc = "idle"
    /\ nParse = 1
    /\ m_errorStr = StrDupShort \o <<"a", NL>> \o StrUnknownOption \o <<"z">>


(***************************************************************************)
(* C17.  Identities of the table builder: a usage line takes a new         *)
(* identity exactly when it newly registers at least one alias, all the    *)
(* aliases one line newly registers get that identity, so aliases of       *)
(* different lines get different ones, and the identities in use are       *)
(* exactly 0..next-1; a line whose aliases all collide takes none.         *)
(***************************************************************************)
NewAliases == DOMAIN m_indexMap' \ DOMAIN m_indexMap

C17_Step ==
    ParseLineStep =>
        /\ m_maxIndex' = IF NewAliases # {} THEN m_maxIndex + 1 ELSE m_maxIndex
        /\ \A a \in NewAliases : m_indexMap'[a] = m_maxIndex

C17_IdentityAssignment ==
    [](Range(m_indexMap) = 0..(m_maxIndex - 1)) /\ [][C17_Step]_vars

\* '-a, --all' twice: the second line collides on both aliases and takes no
\* identity
C17_Witness ==
    /\ pc = "idle"
    /\ m_usage = JoinLines(<<LAll, LAll>>)
    /\ i = 2
    /\ m_maxIndex = 1
    /\ m_indexMap = (<<"a">> :> 0) @@ (<<"a", "l", "l">> :> 0)
    /\ ~good


(***************************************************************************)
(* C18.  Dispatch terminates: a parse() in its loop reaches the end of the *)
(* loop, after no more scanner calls than argv has characters; the loop    *)
(* ends only on the end-of-options signal or on the fatal                  *)
(* unknown-short-option case, the unknown-option and missing-argument      *)
(* signals keep it going; after the loop the elements of argv from optind  *)
(* to the end are appended in order to the positional arguments.           *)
(***************************************************************************)
RECURSIVE TotalLen(_)
TotalLen(av) == IF av = <<>> THEN 0 ELSE Len(Head(av)) + TotalLen(Tail(av))

C18_Step ==
    /\ (ScanStepTaken /\ pc' = "done") =>
          \/ c' = EOF
          \/ (c' \notin {NUL, "?", ":"} /\ <<c'>> \notin DOMAIN m_indexMap)
    /\ (ScanStepTaken /\ c' \in {"?", ":"}) => pc' = "scanning"
    /\ pc = "done" =>
          /\ pc' = "idle"
          /\ m_arguments' = AddAll(m_arguments, SubSeq(argv, optind + 1, Len(argv)))

C18_Terminates ==
    /\ (pc = "scanning") ~> (pc = "done")
    /\ [](pc = "scanning" => ncalls <= TotalLen(argv_in))
    /\ [][C18_Step]_vars

\* the loop went on after an unknown option and a missing argument, ended,
\* and the positional was added
C18_Witness ==
    /\ pc = "idle"
    /\ argv_in = <<Prog, TZ, TFile, TD>>
    /\ ncalls = 3
    /\ m_arguments = Recorded(TFile)
    /\ m_errorStr = StrUnknownOption \o <<"z", NL>> \o StrMissingArg \o <<"d">>


(***************************************************************************)
(* C19.  The fatal case of dispatch is unreachable with a table the        *)
(* builder produced: after any sequence of usage lines every short-option  *)
(* character of the short-option string and every non-zero short char of   *)
(* a long-option descriptor is a key of the alias index, so parse() of an  *)
(* argv naming any one of them never adds the 'unknown short option'       *)
(* diagnostic.                                                             *)
(***************************************************************************)
\* str occurs in text
Contains(text, str) ==
    \E k \in 0..(Len(text) - Len(str)) : SubSeq(text, k + 1, k + Len(str)) = str

ShortCharsIndexed ==
    \A k \in 2..Len(m_shortOptStr) :
        m_shortOptStr[k] # ":" => <<m_shortOptStr[k]>> \in DOMAIN m_indexMap

DescriptorCharsIndexed ==
    \A k \in 1..Len(m_longOptions) :
        m_longOptions[k].val # NUL => <<m_longOptions[k].val>> \in DOMAIN m_indexMap

\* one argv for every short char and every long name of the table, the long
\* names with and without an attached argument
ProbeArgvs ==
    {<<Prog, ShortToken(m_shortOptStr[k])>> : k \in 2..Len(m_shortOptStr)}
    \cup {<<Prog, LongToken(m_longOptNames[k])>> : k \in 1..Len(m_longOptNames)}
    \cup {<<Prog, LongToken(m_longOptNames[k]) \o <<"=", "9">>>> :
             k \in 1..Len(m_longOptNames)}

C19_NoFatalCase ==
    /\ ShortCharsIndexed
    /\ DescriptorCharsIndexed
    /\ (pc = "idle" /\ m_longOptions # <<>>) =>
          \A av \in ProbeArgvs : ~Contains(ParseAlone(av).errorStr, StrUnknownShort)

\* '-a, --all' then '-a, --other': the short char is in the string twice and
\* in two descriptors, and is a key
C19_Witness ==
    /\ pc = "idle"
    /\ m_usage = JoinLines(<<LAll, LOther>>)
    /\ m_shortOptStr = <<":", "a", "a">>
    /\ m_longOptions[2].val = "a"
    /\ <<"a">> \in DOMAIN m_indexMap
    /\ ~good


(***************************************************************************)
(* C20.  Every short option the usage-line parser accepts is dispatchable: *)
(* for a character x that a usage line registers without diagnostics as a  *)
(* short option taking no argument, parse() of the argv [program name,     *)
(* '-x'] records one occurrence under the identity of x and adds no        *)
(* diagnostic.                                                             *)
(***************************************************************************)
C20_ShortDispatchable ==
    (FirstParseDone /\ UsageClean) =>
        \A sc \in UsageOpts :
            (/\ sc.shortOpt # NUL
             /\ sc.argReqmt = no_argument
             /\ argv_in = <<Prog, ShortToken(sc.shortOpt)>>) =>
                /\ good
                /\ <<sc.shortOpt>> \in DOMAIN m_indexMap
                /\ m_options = (m_indexMap[<<sc.shortOpt>>] :> Recorded(<<>>))


====
